---- MODULE Spec2Model ----
(***************************************************************************)
(* A model of the transaction builder Tx of src/src/lucid/tx.ts: the       *)
(* builder state held by txBuilder, the queue of deferred tasks, the       *)
(* synchronous intents and the asynchronous complete().                    *)
(*                                                                         *)
(* Strings stand for hex payloads, addresses and hashes.  A JavaScript     *)
(* value that is undefined is the string Undefined; Truthy is JavaScript's *)
(* truthiness on such strings.  An operation that can throw is a function  *)
(* from the builder state and its arguments to a record [b, err]: the      *)
(* builder state it leaves and the kind of error it raised ("none" when it *)
(* returned).  The error kinds are those of the error taxonomy; the thrown *)
(* messages of the source are named beside each.                           *)
(***************************************************************************)
EXTENDS Integers, Sequences, FiniteSets, TLC

VARIABLES
    txBuilder,   \* Tx.txBuilder: the accumulating draft of the transaction
    tasks,       \* Tx.tasks: the queue of deferred tasks
    utxoDatum,   \* the datum field of each (mutable, shared) UTxO object
    call,        \* the last builder call: operation, arguments, state before, error
    ncalls,      \* number of synchronous intents issued so far
    pc,          \* where complete() is suspended ("idle": no complete() in flight)
    iter,        \* the index of the for-of iterator over this.tasks
    cur,         \* the run state of the task complete() is awaiting
    opts,        \* the options of the complete() in flight
    held,        \* the locals utxos and changeAddress of the complete() in flight
    trace,       \* everything observable that happened, in order
    running,     \* the ids of the tasks started and not yet settled
    outcome,     \* how the last complete() ended: "none", "resolved" or an error kind
    completes,   \* number of complete() calls so far
    conditionSource  \* the caller's variable whose value is handed to applyIf

vars == <<txBuilder, tasks, utxoDatum, call, ncalls, pc, iter, cur, opts, held,
          trace, running, outcome, completes, conditionSource>>

queueVars == <<tasks, utxoDatum, pc, iter, cur, opts, held, trace, running,
               outcome, completes, conditionSource>>

-----------------------------------------------------------------------------
(* Bounds of the model *)

MaxCalls == 2        \* synchronous intents per run
MaxAssets == 2       \* units in an asset map
MaxTasks == 2        \* deferred intents enqueued by the caller
MaxCompletes == 1    \* complete() calls on one builder
MaxRepeats == 2      \* complete() calls on one builder, where it is called again

-----------------------------------------------------------------------------
(* Values *)

Undefined == "undefined"

\* JavaScript truthiness of a string-or-undefined value
Truthy(x) == x \notin {Undefined, ""}

\* fromHex + C.<Type>.from_bytes: succeeds on a well-formed payload, throws otherwise
HexOk(p) == p \in {"d1", "d2", "r1", "s1"}

\* C.Address.from_bech32: throws on a string that does not decode
Bech32Ok(a) == a # "malformed"

\* C.Ed25519KeyHash.from_bech32(poolId)
PoolIdOk(p) == p # "badpool"

NoCredential == [type |-> Undefined, hash |-> Undefined]

\* lucid.utils.getAddressDetails on a string that decodes
AddressDetails(a) ==
    CASE a = "addr_base" ->
           [type |-> "Base",
            paymentCredential |-> [type |-> "Key", hash |-> "pkh1"],
            stakeCredential |-> [type |-> "Key", hash |-> "skh1"]]
      [] a = "addr_script" ->
           [type |-> "Base",
            paymentCredential |-> [type |-> "Script", hash |-> "sh1"],
            stakeCredential |-> [type |-> "Script", hash |-> "sh2"]]
      [] a = "stake_key" ->
           [type |-> "Reward",
            paymentCredential |-> NoCredential,
            stakeCredential |-> [type |-> "Key", hash |-> "skh2"]]
      [] a = "stake_script" ->
           [type |-> "Reward",
            paymentCredential |-> NoCredential,
            stakeCredential |-> [type |-> "Script", hash |-> "sh3"]]
      [] a = "addr_byron" ->
           [type |-> "Byron",
            paymentCredential |-> NoCredential,
            stakeCredential |-> NoCredential]

Addresses == {"addr_base", "addr_script", "stake_key", "stake_script", "addr_byron",
              "malformed"}

\* C.TransactionBuilder.new(...)
EmptyBuilder ==
    [inputs |-> <<>>, refInputs |-> <<>>, outputs |-> <<>>, plutusData |-> <<>>,
     mint |-> <<>>, certs |-> <<>>, withdrawals |-> <<>>, signers |-> <<>>,
     scripts |-> <<>>, balance |-> <<>>]

Ok(b) == [b |-> b, err |-> "none"]
Throw(b, e) == [b |-> b, err |-> e]

\* redeemer ? C.ScriptWitness.new_plutus_witness(...) : undefined
RedeemerWitness(redeemer) == IF Truthy(redeemer) THEN redeemer ELSE Undefined

\* the redeemer argument cannot be built: C.PlutusData.from_bytes throws
RedeemerThrows(redeemer) == Truthy(redeemer) /\ ~HexOk(redeemer)

\* all sequences over S of length lo..hi
SeqsOf(S, lo, hi) == UNION {[1..k -> S] : k \in lo..hi}

\* the keys of an object are pairwise distinct
Distinct(s) == \A i, j \in 1..Len(s) : i # j => s[i] # s[j]

-----------------------------------------------------------------------------
(* mintAssets *)

\* a unit is a policy id (its first 56 characters) followed by an asset name
Units == {[policy |-> "pA", name |-> "t1"], [policy |-> "pA", name |-> "t2"],
          [policy |-> "pB", name |-> "t1"]}

\* Object.keys(assets), in insertion order
AssetMaps == {s \in SeqsOf(Units, 0, MaxAssets) : Distinct(s)}

\* unit.slice(0, 56)
PolicyOf(unit) == unit.policy

\* a faulty variant of SamePolicy: the comparison is lost
SamePolicyLost(unit, policyId) == TRUE

\* unit.slice(0, 56) !== policyId, negated
SamePolicy(unit, policyId) == PolicyOf(unit) = policyId

MintAssetsResult(b, assets, redeemer) ==
    IF Len(assets) = 0
    THEN Throw(b, "TypeError")          \* units[0] is undefined
    ELSE LET policyId == PolicyOf(assets[1]) IN
         IF \E i \in 1..Len(assets) : ~SamePolicy(assets[i], policyId)
         THEN Throw(b, "MixedPolicyError")   \* "Only one Policy Id allowed. ..."
         ELSE IF RedeemerThrows(redeemer)
         THEN Throw(b, "MalformedEncoding")
         ELSE Ok([b EXCEPT !.mint = Append(@,
                    [policy |-> policyId,
                     names |-> [i \in 1..Len(assets) |-> assets[i].name],
                     witness |-> RedeemerWitness(redeemer)])])

-----------------------------------------------------------------------------
(* payToAddress, payToAddressWithData, payToContract *)

\* an asset map of a payment: lovelace and the other units
PayAssets == {[lovelace |-> 5, units |-> <<>>],
              [lovelace |-> 2, units |-> <<[policy |-> "pA", name |-> "t1"]>>]}

\* assetsToValue: lovelace is kept apart from the other asset classes
AssetsToValue(assets) == [coin |-> assets.lovelace, multiasset |-> assets.units]

\* C.hash_plutus_data
HashPlutusData(d) == CASE d = "d1" -> "hash_d1" [] d = "d2" -> "hash_d2"

NoScript == [type |-> Undefined, script |-> Undefined]
NoDatum == [kind |-> Undefined, data |-> Undefined]

\* outputData is a Datum (a string) or an OutputData object
StringData(d) == [form |-> "string", value |-> d, asHash |-> Undefined,
                  inline |-> Undefined, scriptRef |-> NoScript]
ObjectData(h, i, s) == [form |-> "object", value |-> Undefined, asHash |-> h,
                        inline |-> i, scriptRef |-> s]

\* if (typeof outputData === "string") outputData = { asHash: outputData }
NormaliseOutputData(od) ==
    IF od.form = "string" THEN ObjectData(od.value, Undefined, NoScript) ELSE od

\* a faulty variant of DatumConflict: the check is lost
DatumConflictLost(asHash, inline) == FALSE

\* asHash && inline
DatumConflict(asHash, inline) == Truthy(asHash) /\ Truthy(inline)

\* the script reference names a recognised language and its payload does not decode
ScriptRefThrows(script) ==
    /\ script # NoScript
    /\ script.type \in {"Native", "PlutusV1", "PlutusV2"}
    /\ ~HexOk(script.script)

\* output.set_script_ref: only for the three recognised languages
ScriptRefOf(script) ==
    IF script # NoScript /\ script.type \in {"Native", "PlutusV1", "PlutusV2"}
    THEN script ELSE NoScript

PlainOutput(address, assets) ==
    [address |-> address, value |-> AssetsToValue(assets), datum |-> NoDatum,
     scriptRef |-> NoScript]

PayToAddressResult(b, address, assets) ==
    IF ~Bech32Ok(address)
    THEN Throw(b, "InvalidAddress")
    ELSE Ok([b EXCEPT !.outputs = Append(@, PlainOutput(address, assets))])

PayToAddressWithDataResult(b, address, outputData, assets) ==
    LET od == NormaliseOutputData(outputData) IN
    IF DatumConflict(od.asHash, od.inline)
    THEN Throw(b, "ConflictingDatumError")  \* "Not allowed to set asHash and inline ..."
    ELSE IF ~Bech32Ok(address)
    THEN Throw(b, "InvalidAddress")
    ELSE IF Truthy(od.asHash) /\ ~HexOk(od.asHash)
    THEN Throw(b, "MalformedEncoding")
    ELSE IF ~Truthy(od.asHash) /\ Truthy(od.inline) /\ ~HexOk(od.inline)
    THEN Throw(b, "MalformedEncoding")
    ELSE LET \* the witness datum is added before the script reference is decoded
             b1 == IF Truthy(od.asHash)
                   THEN [b EXCEPT !.plutusData = Append(@, od.asHash)]
                   ELSE b
             datum == IF Truthy(od.asHash)
                      THEN [kind |-> "hash", data |-> HashPlutusData(od.asHash)]
                      ELSE IF Truthy(od.inline)
                      THEN [kind |-> "inline", data |-> od.inline]
                      ELSE NoDatum
         IN IF ScriptRefThrows(od.scriptRef)
            THEN Throw(b1, "MalformedEncoding")
            ELSE Ok([b1 EXCEPT !.outputs = Append(@,
                       [address |-> address, value |-> AssetsToValue(assets),
                        datum |-> datum, scriptRef |-> ScriptRefOf(od.scriptRef)])])

\* a faulty variant of HasDatum: both kinds are asked for
HasDatumBoth(asHash, inline) == Truthy(asHash) /\ Truthy(inline)

\* outputData.asHash || outputData.inline
HasDatum(asHash, inline) == Truthy(asHash) \/ Truthy(inline)

PayToContractResult(b, address, outputData, assets) ==
    LET od == NormaliseOutputData(outputData) IN
    IF ~HasDatum(od.asHash, od.inline)
    THEN Throw(b, "UnspendableOutputError")  \* "No datum set. Script output becomes ..."
    ELSE PayToAddressWithDataResult(b, address, od, assets)

-----------------------------------------------------------------------------
(* delegateTo, registerStake, deregisterStake, withdraw *)

\* addressDetails.address.type !== "Reward" || !addressDetails.stakeCredential
NotRewardAddress(details) ==
    details.type # "Reward" \/ details.stakeCredential = NoCredential

\* C.StakeCredential.from_keyhash / from_scripthash
StakeCredentialOf(details) ==
    IF details.stakeCredential.type = "Key"
    THEN [kind |-> "keyhash", hash |-> details.stakeCredential.hash]
    ELSE [kind |-> "scripthash", hash |-> details.stakeCredential.hash]

\* the pool a certificate names: its id, owner key hashes, metadata hash, update flag
PoolRef(id, owners, metadata, isUpdate) ==
    [id |-> id, owners |-> owners, metadata |-> metadata, isUpdate |-> isUpdate]
NoPool == PoolRef(Undefined, <<>>, Undefined, FALSE)

Certificate(kind, credential, pool, witness) ==
    [kind |-> kind, credential |-> credential, pool |-> pool, witness |-> witness]

DelegateToResult(b, rewardAddress, poolId, redeemer) ==
    IF ~Bech32Ok(rewardAddress)
    THEN Throw(b, "InvalidAddress")          \* getAddressDetails throws
    ELSE LET details == AddressDetails(rewardAddress) IN
         IF NotRewardAddress(details)
         THEN Throw(b, "InvalidAddress")     \* "Not a reward address provided."
         ELSE IF ~PoolIdOk(poolId) \/ RedeemerThrows(redeemer)
         THEN Throw(b, "MalformedEncoding")
         ELSE Ok([b EXCEPT !.certs = Append(@,
                    Certificate("stake_delegation", StakeCredentialOf(details),
                                PoolRef(poolId, <<>>, Undefined, FALSE),
                                RedeemerWitness(redeemer)))])

RegisterStakeResult(b, rewardAddress) ==
    IF ~Bech32Ok(rewardAddress)
    THEN Throw(b, "InvalidAddress")
    ELSE LET details == AddressDetails(rewardAddress) IN
         IF NotRewardAddress(details)
         THEN Throw(b, "InvalidAddress")
         ELSE Ok([b EXCEPT !.certs = Append(@,
                    Certificate("stake_registration", StakeCredentialOf(details),
                                NoPool, Undefined))])

DeregisterStakeResult(b, rewardAddress, redeemer) ==
    IF ~Bech32Ok(rewardAddress)
    THEN Throw(b, "InvalidAddress")
    ELSE LET details == AddressDetails(rewardAddress) IN
         IF NotRewardAddress(details)
         THEN Throw(b, "InvalidAddress")
         ELSE IF RedeemerThrows(redeemer)
         THEN Throw(b, "MalformedEncoding")
         ELSE Ok([b EXCEPT !.certs = Append(@,
                    Certificate("stake_deregistration", StakeCredentialOf(details),
                                NoPool, RedeemerWitness(redeemer)))])

\* C.RewardAddress.from_address: the reward address, or undefined for another kind
RewardAddressFromAddress(a) ==
    IF AddressDetails(a).type = "Reward" THEN a ELSE Undefined

\* withdraw makes no check of its own: the non-null assertion hands whatever
\* from_address returned to add_withdrawal.  What the engine does with undefined
\* is not the builder's to decide: it may reject the argument or record the entry.
WithdrawResults(b, rewardAddress, amount, redeemer) ==
    IF ~Bech32Ok(rewardAddress)
    THEN {Throw(b, "InvalidAddress")}        \* C.Address.from_bech32 throws
    ELSE IF RedeemerThrows(redeemer)
    THEN {Throw(b, "MalformedEncoding")}
    ELSE LET reward == RewardAddressFromAddress(rewardAddress)
             added == [b EXCEPT !.withdrawals = Append(@,
                         [rewardAddress |-> reward, amount |-> amount,
                          witness |-> RedeemerWitness(redeemer)])]
         IN IF reward = Undefined
            THEN {Throw(b, "EngineArgumentError"), Ok(added)}
            ELSE {Ok(added)}

-----------------------------------------------------------------------------
(* addSigner, addSignerKey *)

\* C.Ed25519KeyHash.from_bytes(fromHex(keyHash))
KeyHashOk(keyHash) == keyHash \in {"pkh1", "skh1", "skh2"}

\* the key hashes addSignerKey is called with
KeyHashes == {"pkh1", "skh2", "badkey"}

\* !addressDetails.paymentCredential && !addressDetails.stakeCredential
NoCredentials(details) ==
    details.paymentCredential = NoCredential /\ details.stakeCredential = NoCredential

\* a faulty variant of SignerCredential: the payment credential, always
SignerCredentialPayment(details) == details.paymentCredential

\* address.type === "Reward" ? stakeCredential! : paymentCredential!
SignerCredential(details) ==
    IF details.type = "Reward" THEN details.stakeCredential
    ELSE details.paymentCredential

AddSignerKeyResult(b, keyHash) ==
    IF ~KeyHashOk(keyHash)
    THEN Throw(b, "MalformedEncoding")
    ELSE Ok([b EXCEPT !.signers = Append(@, keyHash)])

AddSignerResult(b, address) ==
    IF ~Bech32Ok(address)
    THEN Throw(b, "InvalidAddress")          \* getAddressDetails throws
    ELSE LET details == AddressDetails(address) IN
         IF NoCredentials(details)
         THEN Throw(b, "InvalidAddress")     \* "Not a valid address."
         ELSE LET credential == SignerCredential(details) IN
              IF credential = NoCredential
              THEN Throw(b, "TypeError")     \* credential.type of undefined
              ELSE IF credential.type = "Script"
              THEN Throw(b, "UnsupportedCredentialType")  \* "Only key hashes are allowed as signers."
              ELSE AddSignerKeyResult(b, credential.hash)

-----------------------------------------------------------------------------
(* attachSpendingValidator, attachMintingPolicy, attachCertificateValidator,
   attachWithdrawalValidator: attachScript *)

\* the scripts handed to the attach intents
Scripts == {[type |-> "Native", script |-> "s1"],
            [type |-> "PlutusV1", script |-> "s1"],
            [type |-> "PlutusV2", script |-> "bad"],
            [type |-> "PlutusV3", script |-> "s1"]}

AttachScriptResult(b, script) ==
    IF script.type \in {"Native", "PlutusV1", "PlutusV2"}
    THEN IF ~HexOk(script.script)
         THEN Throw(b, "MalformedEncoding")
         ELSE Ok([b EXCEPT !.scripts = Append(@, script)])
    ELSE Throw(b, "NoVariantMatched")        \* "No variant matched."

-----------------------------------------------------------------------------
(* The inputs of the synchronous intents *)

Redeemers == {Undefined, "r1", "bad"}
PayAddresses == {"addr_base", "addr_script", "malformed"}
ScriptRefs == {NoScript, [type |-> "Native", script |-> "s1"],
               [type |-> "PlutusV2", script |-> "bad"]}
OutputDatas ==
    {StringData(d) : d \in {"", "d1"}} \cup
    {ObjectData(h, i, s) : h \in {Undefined, "d1", "bad"}, i \in {Undefined, "d2"},
                           s \in ScriptRefs}
PoolIds == {"pool1", "badpool"}
Amounts == {0, 7}

\* the builder state and the queue as a call finds them
Snapshot == [b |-> txBuilder, tasks |-> tasks]

\* a synchronous intent: it returns or throws before the caller goes on
SyncCall(op, args, r) ==
    /\ pc = "idle"
    /\ ncalls < MaxCalls
    /\ txBuilder' = r.b
    /\ call' = [op |-> op, args |-> args, pre |-> Snapshot, err |-> r.err]
    /\ ncalls' = ncalls + 1
    /\ UNCHANGED queueVars

MintAssets ==
    \E assets \in AssetMaps, redeemer \in Redeemers :
        SyncCall("mintAssets", [assets |-> assets, redeemer |-> redeemer],
                 MintAssetsResult(txBuilder, assets, redeemer))

PayToAddressOf(addresses, assetMaps) ==
    \E address \in addresses, assets \in assetMaps :
        SyncCall("payToAddress", [address |-> address, assets |-> assets],
                 PayToAddressResult(txBuilder, address, assets))

PayToAddress == PayToAddressOf(PayAddresses, PayAssets)

PayToAddressWithData ==
    \E address \in PayAddresses, outputData \in OutputDatas, assets \in PayAssets :
        SyncCall("payToAddressWithData",
                 [address |-> address, outputData |-> outputData, assets |-> assets],
                 PayToAddressWithDataResult(txBuilder, address, outputData, assets))

PayToContract ==
    \E address \in PayAddresses, outputData \in OutputDatas, assets \in PayAssets :
        SyncCall("payToContract",
                 [address |-> address, outputData |-> outputData, assets |-> assets],
                 PayToContractResult(txBuilder, address, outputData, assets))

DelegateTo ==
    \E rewardAddress \in Addresses, poolId \in PoolIds, redeemer \in Redeemers :
        SyncCall("delegateTo",
                 [rewardAddress |-> rewardAddress, poolId |-> poolId,
                  redeemer |-> redeemer],
                 DelegateToResult(txBuilder, rewardAddress, poolId, redeemer))

RegisterStake ==
    \E rewardAddress \in Addresses :
        SyncCall("registerStake",
                 [rewardAddress |-> rewardAddress, poolId |-> Undefined,
                  redeemer |-> Undefined],
                 RegisterStakeResult(txBuilder, rewardAddress))

DeregisterStake ==
    \E rewardAddress \in Addresses, redeemer \in Redeemers :
        SyncCall("deregisterStake",
                 [rewardAddress |-> rewardAddress, poolId |-> Undefined,
                  redeemer |-> redeemer],
                 DeregisterStakeResult(txBuilder, rewardAddress, redeemer))

Withdraw ==
    \E rewardAddress \in Addresses, amount \in Amounts, redeemer \in Redeemers :
        \E r \in WithdrawResults(txBuilder, rewardAddress, amount, redeemer) :
            SyncCall("withdraw",
                     [rewardAddress |-> rewardAddress, poolId |-> Undefined,
                      redeemer |-> redeemer],
                     r)

AddSignerOf(addresses) ==
    \E address \in addresses :
        SyncCall("addSigner", [address |-> address], AddSignerResult(txBuilder, address))

AddSigner == AddSignerOf(Addresses)

AddSignerKey ==
    \E keyHash \in KeyHashes :
        SyncCall("addSignerKey", [keyHash |-> keyHash],
                 AddSignerKeyResult(txBuilder, keyHash))

\* an attach intent: attachScript(this, script); return this
Attach(op) ==
    \E script \in Scripts :
        SyncCall(op, [script |-> script], AttachScriptResult(txBuilder, script))

AttachSpendingValidator == Attach("attachSpendingValidator")
AttachMintingPolicy == Attach("attachMintingPolicy")
AttachCertificateValidator == Attach("attachCertificateValidator")
AttachWithdrawalValidator == Attach("attachWithdrawalValidator")

-----------------------------------------------------------------------------
(* Deferred tasks: the closures pushed on this.tasks *)

\* the UTxO objects the caller holds; a task writes the datum it fetched into them
UTxOs == {"uPlain", "uHash", "uInline"}

\* utxo.datumHash
DatumHash(u) == IF u = "uHash" THEN "hash_d1" ELSE Undefined

\* utxo.datum as the caller got the object from the provider: uInline is an
\* output with an inline datum, which has a datum and no datum hash
InitialDatum(u) == IF u = "uInline" THEN "d2" ELSE Undefined

\* the arguments of readFrom and of collectFrom
ReadArgs == {<<"uHash">>, <<"uPlain", "uHash">>}
CollectArgs == {[utxos |-> <<"uHash">>, redeemer |-> "r1"],
                [utxos |-> <<"uHash", "uPlain">>, redeemer |-> Undefined]}

\* collectFrom over every kind of UTxO, with a redeemer and without
CollectKinds == {[utxos |-> <<u>>, redeemer |-> r] : u \in UTxOs,
                                                     r \in {Undefined, "r1"}}

PoolParams == {[owners |-> <<"addr_base">>, metadataUrl |-> "url"],
               [owners |-> <<"addr_base", "addr_script">>, metadataUrl |-> "url"],
               [owners |-> <<"stake_key">>, metadataUrl |-> Undefined]}
NoParams == [owners |-> <<>>, metadataUrl |-> Undefined]

\* the callbacks handed to applyIf: one that pays, one that collects (and so
\* enqueues), one that throws, and an asynchronous one that pays after a delay
Callbacks == {[kind |-> k, latency |-> 0] : k \in {"pay", "collect", "throw"}} \cup
             {[kind |-> "slow", latency |-> 2]}
NoCallback == [kind |-> "none", latency |-> 0]

Task(kind, id, utxos, redeemer, params, cb) ==
    [kind |-> kind, id |-> id, utxos |-> utxos, redeemer |-> redeemer,
     params |-> params, cb |-> cb]

\* what a running task is suspended on
NoRun == [id |-> 0, j |-> 0, wait |-> "none", left |-> 0, status |-> "none",
          err |-> "none"]

\* an observable event: its kind, the task it belongs to (0: none), a detail
Ev(e, n) == [e |-> e, n |-> n, x |-> "", a |-> ""]

\* a call of the engine or a return of the wallet, with the UTxO set and the
\* address it carries
Invoke(w, e, utxos, address) ==
    [w EXCEPT !.trace = Append(@, [e |-> e, n |-> 0, x |-> utxos, a |-> address])]

\* the task's promise settles: fulfilled (err = "none") or rejected
Settle(w, t, err) ==
    [w |-> [w EXCEPT !.trace = Append(@, [e |-> "settle", n |-> t.id, x |-> err,
                                                  a |-> ""]),
                     !.running = @ \ {t.id}],
     cur |-> [id |-> t.id, j |-> 0, wait |-> "none", left |-> 0,
              status |-> IF err = "none" THEN "ok" ELSE "err", err |-> err]]

\* the task reaches an await on an external collaborator
Suspend(w, t, j, wait, left) ==
    [w |-> w,
     cur |-> [id |-> t.id, j |-> j, wait |-> wait, left |-> left,
              status |-> "running", err |-> "none"]]

\* utxoToCore: the core UTxO carries the datum the object holds at that moment
UtxoToCore(u, ud) == [ref |-> u, datumHash |-> DatumHash(u), datum |-> ud[u]]

\* a faulty variant of NeedsDatum: the lookup is skipped
NeedsDatumNever(u, ud) == FALSE

\* utxo.datumHash && !utxo.datum
NeedsDatum(u, ud) == Truthy(DatumHash(u)) /\ ~Truthy(ud[u])

NoWitness == [redeemer |-> Undefined, datum |-> Undefined]

\* a faulty variant of InputWitness: the datum is left out of the witness
InputWitnessNoDatum(u, ud, redeemer) ==
    IF Truthy(redeemer) THEN [redeemer |-> redeemer, datum |-> Undefined]
    ELSE NoWitness

\* redeemer && new_plutus_witness(redeemer, utxo.datumHash && utxo.datum ? datum : undefined)
InputWitness(u, ud, redeemer) ==
    IF Truthy(redeemer)
    THEN [redeemer |-> redeemer,
          datum |-> IF Truthy(DatumHash(u)) /\ Truthy(ud[u]) THEN ud[u] ELSE Undefined]
    ELSE NoWitness

\* the body of the readFrom closure from the j-th UTxO on, up to its next await
RECURSIVE RunReadFrom(_, _, _)
RunReadFrom(w, t, j) ==
    IF j > Len(t.utxos)
    THEN Settle(w, t, "none")
    ELSE LET u == t.utxos[j] IN
         IF NeedsDatum(u, w.ud)
         THEN Suspend([w EXCEPT !.trace = Append(@, Ev("datumOf", t.id))],
                      t, j, "datumOf", 0)
         ELSE RunReadFrom(
                [w EXCEPT !.b.refInputs = Append(@, UtxoToCore(u, w.ud))], t, j + 1)

\* datumOf returned d for the j-th UTxO of a readFrom
ResumeReadFrom(w, t, j, d) ==
    LET u == t.utxos[j]
        ud1 == [w.ud EXCEPT ![u] = d]
    IN RunReadFrom([w EXCEPT !.ud = ud1,
                             !.b.plutusData = Append(@, d),
                             !.b.refInputs = Append(@, UtxoToCore(u, ud1))],
                   t, j + 1)

\* the body of the collectFrom closure from the j-th UTxO on, up to its next await
RECURSIVE RunCollectFrom(_, _, _)
RunCollectFrom(w, t, j) ==
    IF j > Len(t.utxos)
    THEN Settle(w, t, "none")
    ELSE LET u == t.utxos[j] IN
         IF NeedsDatum(u, w.ud)
         THEN Suspend([w EXCEPT !.trace = Append(@, Ev("datumOf", t.id))],
                      t, j, "datumOf", 0)
         ELSE IF RedeemerThrows(t.redeemer)
         THEN Settle(w, t, "MalformedEncoding")
         ELSE RunCollectFrom(
                [w EXCEPT !.b.inputs = Append(@,
                    [utxo |-> UtxoToCore(u, w.ud),
                     witness |-> InputWitness(u, w.ud, t.redeemer)])],
                t, j + 1)

\* datumOf returned d for the j-th UTxO of a collectFrom
ResumeCollectFrom(w, t, j, d) ==
    RunCollectFrom([w EXCEPT !.ud[t.utxos[j]] = d], t, j)

-----------------------------------------------------------------------------
(* registerPool, updatePool: createPoolRegistration *)

\* a faulty variant of OwnerIsKey: any stake credential will do
OwnerIsKeyAny(owner) == AddressDetails(owner).stakeCredential # NoCredential

\* stakeCredential?.type === "Key"
OwnerIsKey(owner) == AddressDetails(owner).stakeCredential.type = "Key"

\* poolParams.owners.forEach(...): the error of the first owner that is refused
OwnersError(owners) ==
    IF \E i \in 1..Len(owners) : ~Bech32Ok(owners[i]) \/ ~OwnerIsKey(owners[i])
    THEN LET i == CHOOSE k \in 1..Len(owners) :
                    /\ ~Bech32Ok(owners[k]) \/ ~OwnerIsKey(owners[k])
                    /\ \A m \in 1..(k - 1) : Bech32Ok(owners[m]) /\ OwnerIsKey(owners[m])
         IN IF ~Bech32Ok(owners[i])
            THEN "InvalidAddress"
            ELSE "UnsupportedCredentialType"  \* "Only key hashes allowed for pool owners."
    ELSE "none"

\* C.Ed25519KeyHash.from_hex(stakeCredential.hash) of every owner
OwnerKeyHashes(owners) ==
    [i \in 1..Len(owners) |-> AddressDetails(owners[i]).stakeCredential.hash]

\* the rest of the task once the metadata (if any) is at hand: the certificate
FinishPool(w, t, metadataHash) ==
    Settle([w EXCEPT !.b.certs = Append(@,
              Certificate("pool_registration", NoCredential,
                          PoolRef("pool1", OwnerKeyHashes(t.params.owners),
                                  metadataHash, t.kind = "updatePool"),
                          Undefined))],
           t, "none")

\* a faulty variant of RunPool: the metadata is fetched before the owners are
\* looked at
RunPoolFetchFirst(w, t) ==
    IF Truthy(t.params.metadataUrl)
    THEN Suspend([w EXCEPT !.trace = Append(@, Ev("fetch", t.id))], t, 0, "fetch", 0)
    ELSE LET e == OwnersError(t.params.owners) IN
         IF e # "none" THEN Settle(w, t, e) ELSE FinishPool(w, t, Undefined)

\* the registerPool / updatePool closure up to its first await
RunPool(w, t) ==
    LET e == OwnersError(t.params.owners) IN
    IF e # "none"
    THEN Settle(w, t, e)
    ELSE IF Truthy(t.params.metadataUrl)
    THEN Suspend([w EXCEPT !.trace = Append(@, Ev("fetch", t.id))], t, 0, "fetch", 0)
    ELSE FinishPool(w, t, Undefined)

-----------------------------------------------------------------------------
(* applyIf *)

\* what the callback does to the builder once it runs to its end
CallbackBody(w, t) ==
    Settle([w EXCEPT !.b = PayToAddressResult(@, "addr_base",
                                              [lovelace |-> 5, units |-> <<>>]).b],
           t, "none")

\* () => callback(this), up to its first await
RunCallback(w, t) ==
    CASE t.cb.kind = "pay" -> CallbackBody(w, t)
      [] t.cb.kind = "collect" ->
           \* thisTx.collectFrom([uHash]) pushes a task while the queue is drained
           Settle([w EXCEPT !.tasks = Append(@,
                     Task("collectFrom", Len(w.tasks) + 1, <<"uHash">>, Undefined,
                          NoParams, NoCallback))],
                  t, "none")
      [] t.cb.kind = "throw" -> Settle(w, t, "CallbackError")
      [] t.cb.kind = "slow" -> Suspend(w, t, 0, "timer", t.cb.latency)

-----------------------------------------------------------------------------
(* complete(): the drain of the queue *)

\* the i-th value the for-of iterator yields
TaskAt(q, i) == q[i]

\* task(): the closure runs up to its first await (or to its end)
StartTask(w, t) ==
    LET w1 == [w EXCEPT !.trace = Append(@, Ev("start", t.id)),
                        !.running = @ \cup {t.id}]
    IN CASE t.kind = "readFrom" -> RunReadFrom(w1, t, 1)
         [] t.kind = "collectFrom" -> RunCollectFrom(w1, t, 1)
         [] t.kind \in {"registerPool", "updatePool"} -> RunPool(w1, t)
         [] t.kind = "applyIf" -> RunCallback(w1, t)

\* a faulty variant of ContinueDrain: the loop walks the queue as it was when
\* complete() was called
ContinueDrainSnapshot(w, i) ==
    IF i <= (IF pc = "idle" THEN Len(w.tasks) ELSE Len(call.pre.tasks))
    THEN LET r == StartTask(w, TaskAt(w.tasks, i))
         IN [w |-> r.w, cur |-> r.cur, iter |-> i, pc |-> "drain"]
    ELSE [w |-> [w EXCEPT !.trace = Append(@, Ev("getUtxosCore", 0))],
          cur |-> NoRun, iter |-> i, pc |-> "getUtxos"]

\* the for-of loop at index i: the next task is started, or, the queue being
\* exhausted, the wallet is asked for its UTxOs
ContinueDrain(w, i) ==
    IF i <= Len(w.tasks)
    THEN LET r == StartTask(w, TaskAt(w.tasks, i))
         IN [w |-> r.w, cur |-> r.cur, iter |-> i, pc |-> "drain"]
    ELSE [w |-> [w EXCEPT !.trace = Append(@, Ev("getUtxosCore", 0))],
          cur |-> NoRun, iter |-> i, pc |-> "getUtxos"]

\* a faulty variant of Rethrows: a rejected task is passed over
RethrowsNever(c) == FALSE

\* await task() throws what the task rejected with
Rethrows(c) == c.status = "err"

\* a faulty variant of Awaited: complete() goes on without awaiting the task
AwaitedNot(c) == TRUE

\* await task(): complete() resumes once the task's promise has settled
Awaited(c) == c.status \in {"ok", "err"}

World == [b |-> txBuilder, ud |-> utxoDatum, tasks |-> tasks, trace |-> trace,
          running |-> running]

\* the state a step of complete() leaves, from the result r of its run
Becomes(r) ==
    /\ txBuilder' = r.w.b
    /\ utxoDatum' = r.w.ud
    /\ tasks' = r.w.tasks
    /\ trace' = r.w.trace
    /\ running' = r.w.running
    /\ cur' = r.cur

-----------------------------------------------------------------------------
(* complete(): after the drain *)

Options(c, h, i, s) == [changeAddress |-> c, asHash |-> h, inline |-> i,
                        coinSelection |-> s]
NoOptions == Options(Undefined, Undefined, Undefined, Undefined)
NoHeld == [utxos |-> Undefined, changeAddress |-> Undefined]

\* a faulty variant of ChangeDatumConflict: the check is lost
ChangeDatumConflictLost(o) == FALSE

\* options?.datum?.asHash && options?.datum?.inline
ChangeDatumConflict(o) == Truthy(o.asHash) /\ Truthy(o.inline)

\* a faulty variant of CoinSelection: the option left out counts as false
CoinSelectionTruthy(o) == o.coinSelection = "true"

\* options?.coinSelection || options?.coinSelection === undefined
CoinSelection(o) == o.coinSelection = "true" \/ o.coinSelection = Undefined

\* a faulty variant of ChangeDatum: an inline change datum is dropped
ChangeDatumHashOnly(o) ==
    IF Truthy(o.asHash) THEN [kind |-> "hash", data |-> HashPlutusData(o.asHash)]
    ELSE NoDatum

\* the datum argument of balance
ChangeDatum(o) ==
    IF Truthy(o.asHash) THEN [kind |-> "hash", data |-> HashPlutusData(o.asHash)]
    ELSE IF Truthy(o.inline) THEN [kind |-> "inline", data |-> o.inline]
    ELSE NoDatum

\* a faulty variant of Construct: construct is handed no UTxO set
ConstructStale(w, utxos, changeAddress) ==
    Invoke(w, "construct", Undefined, changeAddress)

\* this.txBuilder.construct(utxos, changeAddress) is called
Construct(w, utxos, changeAddress) == Invoke(w, "construct", utxos, changeAddress)

\* from the change address to the call of construct; balanceOk is the engine's
\* verdict on whether the transaction can be balanced
Finalize(w, o, utxos, changeAddress, balanceOk) ==
    IF ~Bech32Ok(changeAddress)
    THEN [w |-> w, err |-> "InvalidAddress"]
    ELSE LET w1 == IF CoinSelection(o)
                   THEN Invoke(w, "add_inputs_from", utxos, changeAddress)
                   ELSE w
         IN IF (Truthy(o.asHash) /\ ~HexOk(o.asHash))
               \/ (~Truthy(o.asHash) /\ Truthy(o.inline) /\ ~HexOk(o.inline))
            THEN [w |-> w1, err |-> "MalformedEncoding"]
            ELSE LET w2 == Invoke(w1, "balance", "", changeAddress) IN
                 IF ~balanceOk
                 THEN [w |-> w2, err |-> "InsufficientFundsError"]
                 ELSE LET w3 == [w2 EXCEPT !.b.balance = Append(@,
                                    [changeAddress |-> changeAddress,
                                     datum |-> ChangeDatum(o)])]
                          w4 == IF Truthy(o.asHash)
                                THEN [w3 EXCEPT !.b.plutusData = Append(@, o.asHash)]
                                ELSE w3
                      IN [w |-> Construct(w4, utxos, changeAddress), err |-> "none"]

\* complete() rejects with error e
Rejects(e) ==
    /\ pc' = "idle"
    /\ outcome' = e
    /\ cur' = NoRun
    /\ iter' = 0
    /\ opts' = NoOptions
    /\ held' = NoHeld

\* the step of complete() that runs Finalize
Finalizes(w, utxos, changeAddress, balanceOk) ==
    LET f == Finalize(w, opts, utxos, changeAddress, balanceOk) IN
    /\ txBuilder' = f.w.b
    /\ trace' = f.w.trace
    /\ UNCHANGED <<tasks, utxoDatum, running>>
    /\ IF f.err = "none"
       THEN /\ pc' = "construct"
            /\ held' = [utxos |-> utxos, changeAddress |-> changeAddress]
            /\ UNCHANGED <<outcome, cur, iter, opts>>
       ELSE Rejects(f.err)

CompleteCall(o, limit) ==
    /\ pc = "idle"
    /\ completes < limit
    /\ completes' = completes + 1
    /\ UNCHANGED <<ncalls, conditionSource>>
    /\ LET w0 == [World EXCEPT !.trace = Append(@, Ev("complete", completes + 1))] IN
       IF ChangeDatumConflict(o)
       THEN /\ call' = [op |-> "complete", args |-> o, pre |-> Snapshot,
                        err |-> "ConflictingDatumError"]
            /\ trace' = w0.trace
            /\ UNCHANGED <<txBuilder, tasks, utxoDatum, running>>
            /\ Rejects("ConflictingDatumError")
       ELSE LET r == ContinueDrain(w0, 1) IN
            /\ call' = [op |-> "complete", args |-> o, pre |-> Snapshot,
                        err |-> "none"]
            /\ Becomes(r)
            /\ pc' = r.pc
            /\ iter' = r.iter
            /\ opts' = o
            /\ held' = NoHeld
            /\ outcome' = "none"

\* the task the drain is awaiting
CurrentTask == TaskAt(tasks, iter)

Suspended(wait) == pc = "drain" /\ cur.status = "running" /\ cur.wait = wait

TaskStep(r) ==
    /\ Becomes(r)
    /\ UNCHANGED <<call, ncalls, pc, iter, opts, held, outcome, completes,
                   conditionSource>>

\* this.lucid.datumOf(utxo) resolves with the datum body
DatumOfReturns ==
    /\ Suspended("datumOf")
    /\ \E d \in {"d1"} :
        TaskStep(IF CurrentTask.kind = "readFrom"
                 THEN ResumeReadFrom(World, CurrentTask, cur.j, d)
                 ELSE ResumeCollectFrom(World, CurrentTask, cur.j, d))

\* this.lucid.datumOf(utxo) rejects: the datum is not found
DatumOfFails ==
    /\ Suspended("datumOf")
    /\ TaskStep(Settle(World, CurrentTask, "DatumNotFound"))

\* fetch(metadataUrl) resolves: the bytes are hashed and the certificate is built
FetchReturns ==
    /\ Suspended("fetch")
    /\ TaskStep(FinishPool(World, CurrentTask, "hash_meta"))

FetchFails ==
    /\ Suspended("fetch")
    /\ TaskStep(Settle(World, CurrentTask, "MetadataFetchError"))

\* an asynchronous callback resumes from one of its awaits
TimerFires ==
    /\ Suspended("timer")
    /\ TaskStep(IF cur.left > 1
                THEN Suspend(World, CurrentTask, 0, "timer", cur.left - 1)
                ELSE CallbackBody(World, CurrentTask))

\* complete() resumes from await task(): it rethrows, or the loop goes on
DrainResume ==
    /\ pc = "drain"
    /\ Awaited(cur)
    /\ UNCHANGED <<call, ncalls, completes, conditionSource>>
    /\ IF Rethrows(cur)
       THEN /\ Rejects(cur.err)
            /\ UNCHANGED <<txBuilder, tasks, utxoDatum, trace, running>>
       ELSE LET r == ContinueDrain(World, iter + 1) IN
            /\ Becomes(r)
            /\ pc' = r.pc
            /\ iter' = r.iter
            /\ UNCHANGED <<opts, held, outcome>>

\* the UTxO sets the wallet may report
WalletUtxoSets == {"utxosA", "utxosB"}

\* this.lucid.wallet.getUtxosCore() resolves with one of the sets
GetUtxosReturnsOf(sets) ==
    /\ pc = "getUtxos"
    /\ UNCHANGED <<call, ncalls, completes, conditionSource>>
    /\ \E utxos \in sets :
         LET w == Invoke(World, "utxos", utxos, "") IN
         IF Truthy(opts.changeAddress)
         THEN \E balanceOk \in BOOLEAN :
                Finalizes(w, utxos, opts.changeAddress, balanceOk)
         ELSE /\ trace' = Append(w.trace, Ev("walletAddress", 0))
              /\ pc' = "address"
              /\ held' = [held EXCEPT !.utxos = utxos]
              /\ UNCHANGED <<txBuilder, tasks, utxoDatum, running, cur, iter, opts,
                             outcome>>

GetUtxosReturns == GetUtxosReturnsOf({"utxosA"})

GetUtxosReturnsAny == GetUtxosReturnsOf(WalletUtxoSets)

\* a collaborator awaited after the drain rejects
FinalStepFails(at, e) ==
    /\ pc = at
    /\ Rejects(e)
    /\ UNCHANGED <<txBuilder, tasks, utxoDatum, trace, running, call, ncalls,
                   completes, conditionSource>>

GetUtxosFails == FinalStepFails("getUtxos", "ProviderError")

\* the wallet's own address
WalletAddress == "addr_wallet"

\* this.lucid.wallet.address() resolves
AddressReturns ==
    /\ pc = "address"
    /\ UNCHANGED <<call, ncalls, completes, conditionSource>>
    /\ \E balanceOk \in BOOLEAN :
         Finalizes(Invoke(World, "address", "", WalletAddress), held.utxos,
                   WalletAddress, balanceOk)

AddressFails == FinalStepFails("address", "ProviderError")

\* this.txBuilder.construct(utxos, changeAddress) resolves: new TxComplete(...)
ConstructReturns ==
    /\ pc = "construct"
    /\ pc' = "idle"
    /\ outcome' = "resolved"
    /\ trace' = Append(trace, Ev("resolved", 0))
    /\ cur' = NoRun
    /\ iter' = 0
    /\ opts' = NoOptions
    /\ held' = NoHeld
    /\ UNCHANGED <<txBuilder, tasks, utxoDatum, running, call, ncalls, completes,
                   conditionSource>>

ConstructFails == FinalStepFails("construct", "ConstructError")

-----------------------------------------------------------------------------
(* The intents that only enqueue *)

\* a faulty variant of Enqueue: the intent also acts on the builder state at
\* its call, up to its first await, as a synchronous intent does
EnqueueEager(op, args, t) ==
    /\ pc = "idle"
    /\ Len(tasks) < MaxTasks
    /\ completes < MaxCompletes
    /\ tasks' = Append(tasks, t)
    /\ call' = [op |-> op, args |-> args, pre |-> Snapshot, err |-> "none"]
    /\ txBuilder' = StartTask(World, t).w.b
    /\ UNCHANGED <<utxoDatum, ncalls, pc, iter, cur, opts, held, trace, running,
                   outcome, completes, conditionSource>>

\* this.tasks.push(...): the intent returns with its work still to be done
Enqueue(op, args, t) ==
    /\ pc = "idle"
    /\ Len(tasks) < MaxTasks
    /\ completes < MaxCompletes     \* intents are issued while a complete() is to come
    /\ tasks' = Append(tasks, t)
    /\ call' = [op |-> op, args |-> args, pre |-> Snapshot, err |-> "none"]
    /\ UNCHANGED <<txBuilder, utxoDatum, ncalls, pc, iter, cur, opts, held, trace,
                   running, outcome, completes, conditionSource>>

ReadFromOf(args) ==
    \E utxos \in args :
        Enqueue("readFrom", [utxos |-> utxos, redeemer |-> Undefined],
                Task("readFrom", Len(tasks) + 1, utxos, Undefined, NoParams,
                     NoCallback))

ReadFrom == ReadFromOf(ReadArgs)

CollectFromOf(args) ==
    \E a \in args :
        Enqueue("collectFrom", a,
                Task("collectFrom", Len(tasks) + 1, a.utxos, a.redeemer, NoParams,
                     NoCallback))

CollectFrom == CollectFromOf(CollectArgs)

CollectFromKinds == CollectFromOf(CollectKinds)

\* collectFrom([uHash], r1): one script input whose datum is to be looked up
CollectFromScript == CollectFromOf({[utxos |-> <<"uHash">>, redeemer |-> "r1"]})

RegisterPoolOf(params) ==
    \E poolParams \in params :
        Enqueue("registerPool", [poolParams |-> poolParams],
                Task("registerPool", Len(tasks) + 1, <<>>, Undefined, poolParams,
                     NoCallback))

RegisterPool == RegisterPoolOf(PoolParams)

UpdatePoolOf(params) ==
    \E poolParams \in params :
        Enqueue("updatePool", [poolParams |-> poolParams],
                Task("updatePool", Len(tasks) + 1, <<>>, Undefined, poolParams,
                     NoCallback))

UpdatePool == UpdatePoolOf(PoolParams)

\* a faulty variant of Pushes: the condition is not looked at
PushesAlways(condition) == TRUE

\* if (condition) ...
Pushes(condition) == condition

\* applyIf(condition, callback): if (condition) this.tasks.push(() => callback(this))
ApplyIfWith(conditions, callbacks) ==
    \E condition \in conditions, callback \in callbacks :
        IF Pushes(condition)
        THEN Enqueue("applyIf", [condition |-> condition, callback |-> callback],
                     Task("applyIf", Len(tasks) + 1, <<>>, Undefined, NoParams,
                          callback))
        ELSE /\ pc = "idle"
             /\ completes < MaxCompletes
             /\ call' = [op |-> "applyIf",
                         args |-> [condition |-> condition, callback |-> NoCallback],
                         pre |-> Snapshot, err |-> "none"]
             /\ UNCHANGED <<txBuilder, tasks, utxoDatum, ncalls, pc, iter, cur, opts,
                            held, trace, running, outcome, completes,
                            conditionSource>>

ApplyIfOf(conditions) == ApplyIfWith(conditions, Callbacks)

ApplyIf == ApplyIfOf(BOOLEAN)

\* applyIf(conditionSource, callback): the caller hands over the value its
\* variable holds at the call
ApplyIfCurrent == ApplyIfOf({conditionSource})

\* the caller assigns to the variable it handed, or will hand, to applyIf
FlipCondition ==
    /\ conditionSource' = ~conditionSource
    /\ UNCHANGED <<txBuilder, tasks, utxoDatum, call, ncalls, pc, iter, cur, opts,
                   held, trace, running, outcome, completes>>

\* the options complete() is called with while the queue is studied
DrainOptions == {NoOptions, Options(Undefined, "d1", "d2", Undefined)}

Complete == \E o \in DrainOptions : CompleteCall(o, MaxCompletes)

\* complete() on a builder that may be completed again
CompleteAgain == \E o \in DrainOptions : CompleteCall(o, MaxRepeats)

-----------------------------------------------------------------------------
(* Specifications *)

Init ==
    /\ txBuilder = EmptyBuilder
    /\ tasks = <<>>
    /\ utxoDatum = [u \in UTxOs |-> InitialDatum(u)]
    /\ call = [op |-> "new", args |-> [none |-> TRUE], pre |-> [b |-> EmptyBuilder,
               tasks |-> <<>>], err |-> "none"]
    /\ ncalls = 0
    /\ pc = "idle"
    /\ iter = 0
    /\ cur = NoRun
    /\ opts = NoOptions
    /\ held = NoHeld
    /\ trace = <<>>
    /\ running = {}
    /\ outcome = "none"
    /\ completes = 0
    /\ conditionSource = FALSE

\* the builder with its deferred intents and complete()
Next ==
    \/ ReadFrom
    \/ CollectFrom
    \/ RegisterPool
    \/ UpdatePool
    \/ ApplyIf
    \/ Complete
    \/ DatumOfReturns
    \/ DatumOfFails
    \/ FetchReturns
    \/ FetchFails
    \/ TimerFires
    \/ DrainResume
    \/ GetUtxosReturns
    \/ GetUtxosFails
    \/ AddressReturns
    \/ AddressFails
    \/ ConstructReturns
    \/ ConstructFails

Spec == Init /\ [][Next]_vars

\* the same builder, complete() being called on it more than once
NextAgain ==
    \/ ReadFrom
    \/ CollectFrom
    \/ RegisterPool
    \/ UpdatePool
    \/ ApplyIf
    \/ CompleteAgain
    \/ DatumOfReturns
    \/ DatumOfFails
    \/ FetchReturns
    \/ FetchFails
    \/ TimerFires
    \/ DrainResume
    \/ GetUtxosReturns
    \/ GetUtxosFails
    \/ AddressReturns
    \/ AddressFails
    \/ ConstructReturns
    \/ ConstructFails

SpecAgain == Init /\ [][NextAgain]_vars

\* the options complete() is called with while its last steps are studied
FinalOptions ==
    {Options(c, h, i, s) : c \in {Undefined, "addr_base"},
                           h \in {Undefined, "d1"},
                           i \in {Undefined, "d2"},
                           s \in {Undefined, "true", "false"}} \cup
    {Options("malformed", Undefined, Undefined, Undefined),
     Options(Undefined, "bad", Undefined, "false")}

CompleteWithOptions == \E o \in FinalOptions : CompleteCall(o, MaxCompletes)

\* complete() under every option, on a queue of script inputs
NextFinal ==
    \/ CollectFromScript
    \/ CompleteWithOptions
    \/ DatumOfReturns
    \/ DatumOfFails
    \/ DrainResume
    \/ GetUtxosReturnsAny
    \/ GetUtxosFails
    \/ AddressReturns
    \/ AddressFails
    \/ ConstructReturns
    \/ ConstructFails

SpecFinal == Init /\ [][NextFinal]_vars

\* applyIf on a variable the caller goes on assigning to
NextApply ==
    \/ ApplyIfCurrent
    \/ FlipCondition
    \/ ReadFrom
    \/ Complete
    \/ DatumOfReturns
    \/ DatumOfFails
    \/ TimerFires
    \/ DrainResume
    \/ GetUtxosReturns
    \/ GetUtxosFails
    \/ AddressReturns
    \/ AddressFails
    \/ ConstructReturns
    \/ ConstructFails

SpecApply == Init /\ [][NextApply]_vars

\* collectFrom over every kind of UTxO
NextCollect ==
    \/ CollectFromKinds
    \/ Complete
    \/ DatumOfReturns
    \/ DatumOfFails
    \/ DrainResume
    \/ GetUtxosReturns
    \/ GetUtxosFails
    \/ AddressReturns
    \/ AddressFails
    \/ ConstructReturns
    \/ ConstructFails

SpecCollect == Init /\ [][NextCollect]_vars

\* the builder under mintAssets alone
NextMint == MintAssets
SpecMint == Init /\ [][NextMint]_vars

\* the builder under the three payment intents
NextPay == PayToAddress \/ PayToAddressWithData \/ PayToContract
SpecPay == Init /\ [][NextPay]_vars

\* the builder under the signer and the attach intents
NextSign ==
    \/ AddSigner
    \/ AddSignerKey
    \/ AttachSpendingValidator
    \/ AttachMintingPolicy
    \/ AttachCertificateValidator
    \/ AttachWithdrawalValidator

SpecSign == Init /\ [][NextSign]_vars

-----------------------------------------------------------------------------
(* Synchronous and deferred intents issued in any order on one builder,
   followed by complete() *)

\* readFrom of a UTxO that needs no datum, and of one whose datum is looked up
OrderReadArgs == {<<"uPlain">>, <<"uHash">>}

\* collectFrom of a UTxO that needs no datum
OrderCollectArgs == {[utxos |-> <<"uPlain">>, redeemer |-> Undefined]}

\* pool parameters with a metadata URL to fetch, and without one
OrderRegisterParams == {[owners |-> <<"addr_base">>, metadataUrl |-> "url"]}
OrderUpdateParams == {[owners |-> <<"stake_key">>, metadataUrl |-> Undefined]}

\* the callback handed to applyIf pays to an address
OrderCallbacks == {[kind |-> "pay", latency |-> 0]}

NextOrder ==
    \/ PayToAddressOf({"addr_script", "malformed"}, {[lovelace |-> 5, units |-> <<>>]})
    \/ AddSignerOf({"stake_key"})
    \/ ReadFromOf(OrderReadArgs)
    \/ CollectFromOf(OrderCollectArgs)
    \/ RegisterPoolOf(OrderRegisterParams)
    \/ UpdatePoolOf(OrderUpdateParams)
    \/ ApplyIfWith(BOOLEAN, OrderCallbacks)
    \/ Complete
    \/ DatumOfReturns
    \/ FetchReturns
    \/ DrainResume
    \/ GetUtxosReturns
    \/ AddressReturns
    \/ ConstructReturns

SpecOrder == Init /\ [][NextOrder]_vars

\* the builder under the stake intents
NextStake == DelegateTo \/ RegisterStake \/ DeregisterStake \/ Withdraw
SpecStake == Init /\ [][NextStake]_vars

-----------------------------------------------------------------------------
(* What the claims speak of *)

\* the position in trace of the latest call of complete() (0: none yet)
LastComplete ==
    LET calls == {p \in 1..Len(trace) : trace[p].e = "complete"}
    IN IF calls = {} THEN 0
       ELSE CHOOSE p \in calls : \A q \in calls : q <= p

\* what has happened since the latest complete() was called
RunTrace == SubSeq(trace, LastComplete + 1, Len(trace))

IsStart(ev) == ev.e = "start"

\* the execution log of the latest complete(): the ids of the tasks it started
RunLogOf(R) == LET st == SelectSeq(R, IsStart) IN [p \in 1..Len(st) |-> st[p].n]

RunLog == RunLogOf(RunTrace)

\* complete() has left the for-of loop normally
Drained == pc \in {"getUtxos", "address", "construct"}

\* C1: during complete() the deferred tasks run in the order they were enqueued,
\* one at a time: the execution log is <<1, ..., k>> at every moment and
\* <<1, ..., n>> once the queue is drained, a task is started only after the task
\* before it has settled, and never are two tasks in flight.
C1_DrainInOrder ==
    LET R == RunTrace
        L == RunLogOf(R)
    IN
    /\ Cardinality(running) <= 1
    /\ \A p \in 1..Len(L) : L[p] = p
    /\ Drained => Len(L) = Len(tasks)
    /\ \A p \in 1..Len(R) :
         (R[p].e = "start" /\ R[p].n > 1) =>
            \E q \in 1..(p - 1) :
               R[q].e = "settle" /\ R[q].n = R[p].n - 1

\* C1 witness: a queue of two tasks or more is drained, one of them having
\* waited for a datum lookup
C1_Witness ==
    LET R == RunTrace
    IN
    /\ Drained
    /\ Len(tasks) >= 2
    /\ \E p \in 1..Len(R) : R[p].e = "datumOf" /\ R[p].n = 1

\* C2: every deferred task is executed once over the lifetime of a builder: once
\* a complete() has drained the queue, no task is started again, whatever is
\* called afterwards.
C2_ExecutedOnce ==
    \A p \in 1..Len(trace) : \A q \in (p + 1)..Len(trace) :
        trace[p].e = "getUtxosCore" => trace[q].e # "start"

\* C3: once a task has failed, the next thing that happens is that complete()
\* rejects with that task's error: no further task is started, no collaborator
\* is called and the builder state stays as the tasks so far have left it; and
\* the step in which a task fails takes nothing back from the builder state.
C3_FailureStopsDrain ==
    [][/\ (pc = "drain" /\ cur.status = "err") =>
            /\ pc' = "idle"
            /\ outcome' = cur.err
            /\ txBuilder' = txBuilder
            /\ tasks' = tasks
            /\ trace' = trace
       /\ (pc' = "drain" /\ cur'.status = "err" /\ pc = "drain") =>
            /\ \A f \in DOMAIN txBuilder :
                  /\ Len(txBuilder'[f]) >= Len(txBuilder[f])
                  /\ SubSeq(txBuilder'[f], 1, Len(txBuilder[f])) = txBuilder[f]
      ]_vars

\* C3 witness: the second task of the queue has failed after the first has
\* added to the builder state, a third one waiting behind it or not
C3_Witness ==
    LET R == RunTrace
        L == RunLogOf(R)
    IN
    /\ pc = "idle"
    /\ Len(tasks) = 3
    /\ Len(L) = 2
    /\ \E p, q \in 1..Len(R) :
         /\ R[p].e = "settle" /\ R[p].n = 1 /\ R[p].x = "none"
         /\ R[q].e = "settle" /\ R[q].n = 2
         /\ R[q].x = outcome /\ outcome # "none"
    /\ txBuilder # EmptyBuilder

\* C4: complete() called with asHash and inline both set rejects with
\* ConflictingDatumError and nothing else happens: no task is started, no
\* collaborator is called, builder state and queue are as before the call.
C4_ConflictBeforeDrain ==
    LET R == RunTrace
    IN
    (call.op = "complete" /\ Truthy(call.args.asHash) /\ Truthy(call.args.inline)) =>
        /\ call.err = "ConflictingDatumError"
        /\ outcome = "ConflictingDatumError"
        /\ pc = "idle"
        /\ R = <<>>
        /\ running = {}
        /\ txBuilder = call.pre.b
        /\ tasks = call.pre.tasks

\* C4 witness: such a call on a builder whose queue is not empty
C4_Witness ==
    /\ call.op = "complete"
    /\ Truthy(call.args.asHash) /\ Truthy(call.args.inline)
    /\ Len(tasks) >= 1


StakeOps == {"delegateTo", "registerStake", "deregisterStake", "withdraw"}

\* the other arguments of a stake intent are well formed
StakeArgsOk(args) == PoolIdOk(args.poolId) /\ ~RedeemerThrows(args.redeemer)

\* the certificates and withdrawals of a builder state, counted
StakeEntries(b) == Len(b.certs) + Len(b.withdrawals)

\* C5: each of delegateTo, registerStake, deregisterStake and withdraw, called
\* with a reward address, appends its certificate or withdrawal, and called with
\* an address of another kind fails with InvalidAddress and appends nothing.
C5_RewardAddressOnly ==
    call.op \in StakeOps =>
        LET a == call.args.rewardAddress IN
        /\ (Bech32Ok(a) /\ AddressDetails(a).type # "Reward") =>
              /\ call.err = "InvalidAddress"
              /\ txBuilder = call.pre.b
        /\ (Bech32Ok(a) /\ AddressDetails(a).type = "Reward"
              /\ StakeArgsOk(call.args)) =>
              /\ call.err = "none"
              /\ StakeEntries(txBuilder) = StakeEntries(call.pre.b) + 1

\* C6: mintAssets with units of two policy ids or more fails with
\* MixedPolicyError at the call and registers nothing; with units of one policy
\* id (and a redeemer that decodes, if any) it returns and registers one mint
\* directive, for that policy and all its asset names.
C6_OnePolicyPerMint ==
    call.op = "mintAssets" =>
        LET assets == call.args.assets
            prefixes == {assets[i].policy : i \in 1..Len(assets)}
        IN /\ Cardinality(prefixes) >= 2 =>
                /\ call.err = "MixedPolicyError"
                /\ txBuilder = call.pre.b
                /\ tasks = call.pre.tasks
           /\ (Cardinality(prefixes) = 1 /\ ~RedeemerThrows(call.args.redeemer)) =>
                /\ call.err = "none"
                /\ Len(txBuilder.mint) = Len(call.pre.b.mint) + 1
                /\ txBuilder.mint[Len(txBuilder.mint)].policy \in prefixes
                /\ Len(txBuilder.mint[Len(txBuilder.mint)].names) = Len(assets)
                /\ [txBuilder EXCEPT !.mint = call.pre.b.mint] = call.pre.b

\* C6 witness: a map of two policies is refused on a builder that already
\* holds a mint directive
C6_Witness ==
    /\ call.op = "mintAssets"
    /\ Cardinality({call.args.assets[i].policy : i \in 1..Len(call.args.assets)}) = 2
    /\ call.err = "MixedPolicyError"
    /\ Len(txBuilder.mint) = 1

\* C7: payToAddressWithData with asHash and inline both set fails with
\* ConflictingDatumError, whatever the address and the assets, and appends
\* neither an output nor a witness datum.
C7_ConflictingDatum ==
    (/\ call.op = "payToAddressWithData"
     /\ Truthy(call.args.outputData.asHash)
     /\ Truthy(call.args.outputData.inline)) =>
        /\ call.err = "ConflictingDatumError"
        /\ txBuilder = call.pre.b

\* C7 witness: such a call with an address that does not even decode, on a
\* builder that already holds an output
C7_Witness ==
    /\ call.op = "payToAddressWithData"
    /\ Truthy(call.args.outputData.asHash)
    /\ Truthy(call.args.outputData.inline)
    /\ call.args.address = "malformed"
    /\ Len(txBuilder.outputs) >= 1

\* the datum kinds an outputData sets
DatumKinds(od) ==
    LET n == NormaliseOutputData(od)
    IN {k \in {"asHash", "inline"} : Truthy(n[k])}

\* everything payToAddressWithData decodes is well formed
PayArgsOk(args) ==
    LET n == NormaliseOutputData(args.outputData) IN
    /\ Bech32Ok(args.address)
    /\ \A k \in DatumKinds(args.outputData) : HexOk(n[k])
    /\ ~ScriptRefThrows(n.scriptRef)

\* C8: payToContract with no datum fails with UnspendableOutputError and
\* appends nothing; with a datum it does what payToAddressWithData does from the
\* same state with the same arguments (same builder state, same error), which
\* with one datum kind and well-formed arguments is to append one output.
C8_PayToContract ==
    call.op = "payToContract" =>
        IF DatumKinds(call.args.outputData) = {}
        THEN /\ call.err = "UnspendableOutputError"
             /\ txBuilder = call.pre.b
        ELSE LET r == PayToAddressWithDataResult(call.pre.b, call.args.address,
                                                 call.args.outputData,
                                                 call.args.assets)
             IN /\ txBuilder = r.b
                /\ call.err = r.err
                /\ (Cardinality(DatumKinds(call.args.outputData)) = 1
                      /\ PayArgsOk(call.args)) =>
                      /\ call.err = "none"
                      /\ Len(txBuilder.outputs) = Len(call.pre.b.outputs) + 1

\* C8 witness: payToContract with an inline datum has appended a second output
C8_Witness ==
    /\ call.op = "payToContract"
    /\ DatumKinds(call.args.outputData) = {"inline"}
    /\ call.err = "none"
    /\ Len(txBuilder.outputs) = 2

IsPoolTask(t) == t.kind \in {"registerPool", "updatePool"}

\* an owner of the pool resolves to a script-hash stake credential
HasScriptOwner(params) ==
    \E i \in 1..Len(params.owners) :
        /\ Bech32Ok(params.owners[i])
        /\ AddressDetails(params.owners[i]).stakeCredential.type = "Script"

PoolCertificates(b) ==
    {i \in 1..Len(b.certs) : b.certs[i].kind = "pool_registration"}

\* the pool tasks that have settled without error, over the builder's lifetime
PoolTasksDone ==
    {p \in 1..Len(trace) : /\ trace[p].e = "settle"
                           /\ IsPoolTask(tasks[trace[p].n])
                           /\ trace[p].x = "none"}

\* C9: registerPool and updatePool with an owner of script-hash credential
\* return without error and without touching the builder state; the task fails
\* with UnsupportedCredentialType when it runs inside complete(), complete()
\* rejects with it, and the task appends no pool-registration certificate.
C9_PoolOwnerCheckedInDrain ==
    /\ (call.op \in {"registerPool", "updatePool"}) =>
          /\ call.err = "none"
          /\ txBuilder = call.pre.b
          /\ Len(tasks) = Len(call.pre.tasks) + 1
    /\ \A p \in 1..Len(trace) :
          (/\ trace[p].e = "settle"
           /\ IsPoolTask(tasks[trace[p].n])
           /\ HasScriptOwner(tasks[trace[p].n].params)) =>
              /\ trace[p].x = "UnsupportedCredentialType"
              /\ (p = Len(trace) /\ pc = "idle") =>
                    outcome = "UnsupportedCredentialType"
    /\ Cardinality(PoolCertificates(txBuilder)) = Cardinality(PoolTasksDone)
    /\ \A i \in PoolCertificates(txBuilder) :
          \A k \in 1..Len(txBuilder.certs[i].pool.owners) :
              txBuilder.certs[i].pool.owners[k] \in {"skh1", "skh2"}

\* C9 witness: complete() has rejected because a pool task met a script owner,
\* after an earlier pool task had appended its certificate
C9_Witness ==
    /\ pc = "idle"
    /\ outcome = "UnsupportedCredentialType"
    /\ Cardinality(PoolCertificates(txBuilder)) = 1
    /\ trace[Len(trace)].e = "settle"
    /\ HasScriptOwner(tasks[trace[Len(trace)].n].params)

\* the UTxOs the builder state holds as inputs and as reference inputs
AddedUtxos(b) ==
    {b.inputs[i].utxo : i \in 1..Len(b.inputs)} \cup
    {b.refInputs[i] : i \in 1..Len(b.refInputs)}

\* C10: a UTxO with a datum hash and no datum body is not among the inputs or
\* reference inputs: every one added carries the body, which only a lookup
\* that returned can have put on the UTxO, and a UTxO whose lookup failed is
\* not added.
C10_DatumResolvedFirst ==
    /\ \A c \in AddedUtxos(txBuilder) : Truthy(c.datumHash) => Truthy(c.datum)
    /\ \A u \in UTxOs :
          (Truthy(DatumHash(u)) /\ ~Truthy(utxoDatum[u])) =>
              \A c \in AddedUtxos(txBuilder) : c.ref # u
    /\ (pc = "drain" /\ cur.status = "running" /\ cur.wait = "datumOf") =>
          LET u == tasks[iter].utxos[cur.j]
          IN \A c \in AddedUtxos(txBuilder) : c.ref # u

\* C10 witness: the queue of two tasks is drained, the UTxO with a datum hash
\* was added with the body its one lookup returned
C10_Witness ==
    LET R == RunTrace
    IN
    /\ Drained
    /\ Len(tasks) = 2
    /\ \E c \in AddedUtxos(txBuilder) : c.ref = "uHash" /\ c.datum = "d1"
    /\ Cardinality({p \in 1..Len(R) : R[p].e = "datumOf"}) = 1

\* the datum bodies the witness set of a builder state holds
WitnessDatums(b) == {b.plutusData[k] : k \in 1..Len(b.plutusData)}

\* the UTxOs with a datum hash that the readFrom tasks of the queue were given
ReadWithHash ==
    {u \in UTxOs :
        /\ Truthy(DatumHash(u))
        /\ \E i \in 1..Len(tasks) :
              /\ tasks[i].kind = "readFrom"
              /\ \E j \in 1..Len(tasks[i].utxos) : tasks[i].utxos[j] = u}

\* C11: once complete() has resolved, the datum body of every UTxO with a datum
\* hash that was given to readFrom is in the witness set of the builder state,
\* whether the readFrom task looked it up or found it on the UTxO, where an
\* earlier task had put it.
C11_ReadDatumInWitnessSet ==
    (pc = "idle" /\ outcome = "resolved") =>
        \A u \in ReadWithHash : utxoDatum[u] \in WitnessDatums(txBuilder)

\* the positions in the latest complete() at which an event of kind e happened
At(R, e) == {p \in 1..Len(R) : R[p].e = e}

Happened(R, e) == At(R, e) # {}

\* the position of an event that happened once
Pos(R, e) == CHOOSE p \in At(R, e) : TRUE

\* the last call was complete(), so that RunTrace is what that call has done
InComplete == call.op = "complete"

\* the change address the latest complete() goes by, once it is determined:
\* the caller's, or the one the wallet returned
ChangeAddressKnown(R) ==
    \/ Truthy(call.args.changeAddress) /\ Happened(R, "utxos")
    \/ Happened(R, "address")

ChangeAddressUsed(R) ==
    IF Truthy(call.args.changeAddress) THEN call.args.changeAddress
    ELSE R[Pos(R, "address")].a

\* the change datum of the call, if any, decodes
ChangeDatumDecodes ==
    /\ Truthy(call.args.asHash) => HexOk(call.args.asHash)
    /\ (~Truthy(call.args.asHash) /\ Truthy(call.args.inline)) =>
          HexOk(call.args.inline)

\* C12: complete() runs input selection when coinSelection is true or is not
\* given, and does not when it is false; in all three cases, once the change
\* address is at hand (and the change datum decodes), balance is invoked, and
\* a complete() that resolves has invoked balance and construct.
C12_CoinSelectionDefault ==
    LET R == RunTrace
    IN
    InComplete =>
        /\ Happened(R, "add_inputs_from") =>
              call.args.coinSelection \in {"true", Undefined}
        /\ (ChangeAddressKnown(R) /\ Bech32Ok(ChangeAddressUsed(R))) =>
              (Happened(R, "add_inputs_from") <=> call.args.coinSelection # "false")
        /\ (/\ ChangeAddressKnown(R)
            /\ Bech32Ok(ChangeAddressUsed(R))
            /\ ChangeDatumDecodes) =>
              Happened(R, "balance")
        /\ (pc = "construct" \/ (pc = "idle" /\ outcome = "resolved")) =>
              Happened(R, "balance") /\ Happened(R, "construct")

\* C12 witness: complete({coinSelection: false}) has resolved without input
\* selection, after balance and construct
C12_Witness ==
    LET R == RunTrace
    IN
    /\ InComplete
    /\ call.args.coinSelection = "false"
    /\ pc = "idle" /\ outcome = "resolved"
    /\ ~Happened(R, "add_inputs_from")
    /\ Happened(R, "balance") /\ Happened(R, "construct")
    /\ Len(tasks) >= 1

\* every task of the queue has settled without error before position p
AllSettledBefore(R, p) ==
    \A i \in 1..Len(tasks) :
        \E q \in 1..(p - 1) :
            R[q].e = "settle" /\ R[q].n = i /\ R[q].x = "none"

\* C13: in a complete() that gets to construct, things happen in this order:
\* every task settles, the wallet is asked for its UTxOs and returns them, the
\* change address is determined (the wallet being asked when the caller gave
\* none), inputs are selected (if enabled), balance, construct; each once,
\* construct with the UTxO set and the change address obtained in this call;
\* and in no complete() is a task started after the wallet was asked.
C13_FinalizationOrder ==
    LET R == RunTrace
    IN
    /\ \A p \in At(R, "getUtxosCore") : \A q \in At(R, "start") : q < p
    /\ (InComplete /\ Happened(R, "construct")) =>
          /\ \A e \in {"getUtxosCore", "utxos", "balance", "construct"} :
                Cardinality(At(R, e)) = 1
          /\ \A e \in {"walletAddress", "address", "add_inputs_from"} :
                Cardinality(At(R, e)) <= 1
          /\ AllSettledBefore(R, Pos(R, "getUtxosCore"))
          /\ Pos(R, "getUtxosCore") < Pos(R, "utxos")
          /\ Happened(R, "address") <=> ~Truthy(call.args.changeAddress)
          /\ Happened(R, "address") <=> Happened(R, "walletAddress")
          /\ Happened(R, "address") =>
                /\ Pos(R, "utxos") < Pos(R, "walletAddress")
                /\ Pos(R, "walletAddress") < Pos(R, "address")
                /\ Pos(R, "address") < Pos(R, "balance")
          /\ Happened(R, "add_inputs_from") =>
                /\ Pos(R, "utxos") < Pos(R, "add_inputs_from")
                /\ Happened(R, "address") => Pos(R, "address") < Pos(R, "add_inputs_from")
                /\ Pos(R, "add_inputs_from") < Pos(R, "balance")
                /\ R[Pos(R, "add_inputs_from")].x = R[Pos(R, "utxos")].x
                /\ R[Pos(R, "add_inputs_from")].a = ChangeAddressUsed(R)
          /\ Pos(R, "utxos") < Pos(R, "balance")
          /\ Pos(R, "balance") < Pos(R, "construct")
          /\ R[Pos(R, "balance")].a = ChangeAddressUsed(R)
          /\ R[Pos(R, "construct")].x = R[Pos(R, "utxos")].x
          /\ R[Pos(R, "construct")].a = ChangeAddressUsed(R)

\* C13 witness: a complete() with no change address given has resolved, on a
\* queue of two tasks, with the second UTxO set of the wallet
C13_Witness ==
    LET R == RunTrace
    IN
    /\ InComplete
    /\ pc = "idle" /\ outcome = "resolved"
    /\ Len(tasks) = 2
    /\ Happened(R, "address") /\ Happened(R, "add_inputs_from")
    /\ R[Pos(R, "construct")].x = "utxosB"

\* C14: the step of complete() that balances registers the body of the change
\* datum in the witness set exactly when the datum was given as asHash, and
\* hands balance the hash of the body (asHash), the body (inline) or no datum;
\* nothing else of the builder state changes.
C14_ChangeDatumWitness ==
    [][(pc \in {"getUtxos", "address"} /\ pc' = "construct") =>
          /\ txBuilder'.plutusData =
                IF Truthy(opts.asHash)
                THEN Append(txBuilder.plutusData, opts.asHash)
                ELSE txBuilder.plutusData
          /\ Len(txBuilder'.balance) = Len(txBuilder.balance) + 1
          /\ txBuilder'.balance[Len(txBuilder'.balance)].datum =
                IF Truthy(opts.asHash)
                THEN [kind |-> "hash", data |-> HashPlutusData(opts.asHash)]
                ELSE IF Truthy(opts.inline)
                THEN [kind |-> "inline", data |-> opts.inline]
                ELSE NoDatum
          /\ [txBuilder' EXCEPT !.plutusData = txBuilder.plutusData,
                                !.balance = txBuilder.balance] = txBuilder
      ]_vars

\* C14 witness: complete() with an inline change datum has balanced, the
\* witness set being empty
C14_Witness ==
    /\ pc = "construct"
    /\ opts.inline = "d2"
    /\ txBuilder.plutusData = <<>>
    /\ txBuilder.balance[Len(txBuilder.balance)].datum.kind = "inline"
    /\ Len(txBuilder.inputs) >= 1

\* the applyIf tasks of the queue
ApplyIfTasks == {i \in 1..Len(tasks) : tasks[i].kind = "applyIf"}

\* how many times the latest complete() has started task i
Starts(R, i) == Cardinality({p \in At(R, "start") : R[p].n = i})

\* C15: applyIf decides at the call: with a false condition the queue is left as
\* it was, with a true one the callback is appended to it, and in both cases
\* the callback has not run when applyIf returns (the builder state is
\* untouched).  The callback then runs during complete(), once and at its place
\* in the queue, whatever value the caller's variable has taken since.
C15_ApplyIfAtCallTime ==
    LET R == RunTrace
        L == RunLogOf(R)
    IN
    /\ call.op = "applyIf" =>
          /\ call.err = "none"
          /\ txBuilder = call.pre.b
          /\ ~call.args.condition => tasks = call.pre.tasks
          /\ call.args.condition =>
                /\ Len(tasks) = Len(call.pre.tasks) + 1
                /\ SubSeq(tasks, 1, Len(call.pre.tasks)) = call.pre.tasks
                /\ tasks[Len(tasks)].kind = "applyIf"
                /\ tasks[Len(tasks)].cb = call.args.callback
    /\ \A i \in ApplyIfTasks :
          /\ Starts(R, i) <= 1
          /\ Starts(R, i) = 1 => L[i] = i
          /\ Drained => Starts(R, i) = 1

\* C15 witness: the queue is drained and the callback, enqueued second while
\* the caller's variable was true, has run and paid, the variable being false
\* by now
C15_Witness ==
    LET R == RunTrace
    IN
    /\ Drained
    /\ ~conditionSource
    /\ Len(tasks) = 2
    /\ tasks[1].kind = "readFrom"
    /\ tasks[2].kind = "applyIf" /\ tasks[2].cb.kind = "pay"
    /\ Starts(R, 2) = 1
    /\ Len(txBuilder.outputs) = 1

\* every owner of the pool resolves to a key-hash stake credential
AllOwnersKey(params) ==
    \A i \in 1..Len(params.owners) :
        /\ Bech32Ok(params.owners[i])
        /\ AddressDetails(params.owners[i]).stakeCredential.type = "Key"

\* the metadata fetches the latest complete() has made for task i
Fetches(R, i) == {p \in At(R, "fetch") : R[p].n = i}

\* C16: the metadata fetcher is contacted only by a pool task whose parameters
\* have a metadata URL and whose owners all resolve to key-hash credentials, and
\* at most once by a task in one complete(); a task that has no URL contacts
\* nobody; a task whose fetch fails settles with MetadataFetchError, complete()
\* rejects with it, and only the pool tasks that settled without error have
\* appended a pool-registration certificate.
C16_OwnersBeforeFetch ==
    LET R == RunTrace
    IN
    /\ \A p \in 1..Len(trace) :
          trace[p].e = "fetch" =>
              /\ IsPoolTask(tasks[trace[p].n])
              /\ Truthy(tasks[trace[p].n].params.metadataUrl)
              /\ AllOwnersKey(tasks[trace[p].n].params)
    /\ \A i \in 1..Len(tasks) : Cardinality(Fetches(R, i)) <= 1
    /\ \A p \in 1..Len(trace) :
          (trace[p].e = "settle" /\ IsPoolTask(tasks[trace[p].n])) =>
              /\ trace[p].x \in {"none", "MetadataFetchError", "InvalidAddress",
                                 "UnsupportedCredentialType"}
              /\ trace[p].x = "MetadataFetchError" =>
                    /\ trace[p - 1].e = "fetch" /\ trace[p - 1].n = trace[p].n
                    /\ (p = Len(trace) /\ pc = "idle") =>
                          outcome = "MetadataFetchError"
              /\ (trace[p].x = "none"
                    /\ Truthy(tasks[trace[p].n].params.metadataUrl)) =>
                    trace[p - 1].e = "fetch" /\ trace[p - 1].n = trace[p].n
    /\ Cardinality(PoolCertificates(txBuilder)) = Cardinality(PoolTasksDone)
    /\ \A i \in PoolCertificates(txBuilder) :
          txBuilder.certs[i].pool.metadata \in {Undefined, "hash_meta"}

\* C16 witness: complete() has rejected with MetadataFetchError at the second
\* pool task, the first one having fetched its metadata and appended its
\* certificate
C16_Witness ==
    LET R == RunTrace
    IN
    /\ pc = "idle"
    /\ outcome = "MetadataFetchError"
    /\ Len(tasks) = 2
    /\ Cardinality(At(R, "fetch")) = 2
    /\ Cardinality(PoolCertificates(txBuilder)) = 1
    /\ txBuilder.certs[1].pool.metadata = "hash_meta"

HasDatumBody(u) == Truthy(utxoDatum[u])
HasHashedDatum(u) == Truthy(DatumHash(u)) /\ Truthy(utxoDatum[u])

\* the input collectFrom is to add for UTxO u under the given redeemer, the
\* witness carrying the datum of u when u has a datum hash and its body, or,
\* with anyDatum, whenever u has a datum body
InputFor(u, redeemer, anyDatum) ==
    [utxo |-> [ref |-> u, datumHash |-> DatumHash(u), datum |-> utxoDatum[u]],
     witness |-> IF Truthy(redeemer)
                 THEN [redeemer |-> redeemer,
                       datum |-> IF (anyDatum /\ HasDatumBody(u)) \/ HasHashedDatum(u)
                                 THEN utxoDatum[u] ELSE Undefined]
                 ELSE NoWitness]

\* the inputs the first k tasks of a queue of collectFrom tasks are to add
RECURSIVE InputsOf(_, _)
InputsOf(k, anyDatum) ==
    IF k = 0 THEN <<>>
    ELSE InputsOf(k - 1, anyDatum) \o
         [j \in 1..Len(tasks[k].utxos) |->
             InputFor(tasks[k].utxos[j], tasks[k].redeemer, anyDatum)]

IsPrefix(s, t) == Len(s) <= Len(t) /\ SubSeq(t, 1, Len(s)) = s

\* the inputs of the builder state are those the queue is to add, in order, all
\* of them once the first complete() has drained the queue
InputsAre(anyDatum) ==
    completes = 1 =>
        /\ IsPrefix(txBuilder.inputs, InputsOf(Len(tasks), anyDatum))
        /\ Drained => txBuilder.inputs = InputsOf(Len(tasks), anyDatum)

\* C17, as stated: every UTxO collected with a redeemer is added with a script
\* witness that carries the redeemer and the datum of the UTxO whenever the UTxO
\* has a datum, and every UTxO collected without a redeemer is added with no
\* script witness.
C17_WitnessCarriesDatum == InputsAre(TRUE)

\* C17, amended: the witness carries the datum of the UTxO whenever the UTxO has
\* a datum hash and its datum body (looked up or already there); for a UTxO
\* that has a datum and no datum hash (an inline datum) the witness carries the
\* redeemer alone.
C17_WitnessCarriesHashedDatum == InputsAre(FALSE)

\* C17 witness: the queue is drained, a UTxO with a datum hash and one with an
\* inline datum having been collected with a redeemer
C17_Witness ==
    /\ completes = 1 /\ Drained
    /\ Len(txBuilder.inputs) = 2
    /\ txBuilder.inputs[1].utxo.ref = "uHash"
    /\ txBuilder.inputs[1].witness = [redeemer |-> "r1", datum |-> "d1"]
    /\ txBuilder.inputs[2].utxo.ref = "uInline"
    /\ txBuilder.inputs[2].witness = [redeemer |-> "r1", datum |-> Undefined]

\* C18: addSigner on an address that decodes adds the one key hash of the
\* credential it selects (the stake credential of a reward address, the payment
\* credential of any other) when that is a key hash; it fails with
\* InvalidAddress when the address has no credential and with
\* UnsupportedCredentialType when the selected credential is a script hash, in
\* both cases with no required signer added.
C18_AddSigner ==
    (call.op = "addSigner" /\ Bech32Ok(call.args.address)) =>
        LET d == AddressDetails(call.args.address)
            sel == IF d.type = "Reward" THEN d.stakeCredential
                   ELSE d.paymentCredential
        IN /\ sel.type = "Key" =>
                 /\ call.err = "none"
                 /\ txBuilder.signers = Append(call.pre.b.signers, sel.hash)
                 /\ [txBuilder EXCEPT !.signers = call.pre.b.signers] = call.pre.b
           /\ (d.paymentCredential = NoCredential
                 /\ d.stakeCredential = NoCredential) =>
                 /\ call.err = "InvalidAddress"
                 /\ txBuilder = call.pre.b
           /\ sel.type = "Script" =>
                 /\ call.err = "UnsupportedCredentialType"
                 /\ txBuilder = call.pre.b
           /\ tasks = call.pre.tasks

\* C18 witness: addSigner is refused for a reward address of script credential,
\* after it had added the stake key hash of another reward address
C18_Witness ==
    /\ call.op = "addSigner"
    /\ call.args.address = "stake_script"
    /\ call.err = "UnsupportedCredentialType"
    /\ txBuilder.signers = <<"skh2">>

\* the synchronous intents
SyncOps == {"mintAssets", "payToAddress", "payToAddressWithData", "payToContract",
            "delegateTo", "registerStake", "deregisterStake", "withdraw",
            "addSigner", "addSignerKey", "attachSpendingValidator",
            "attachMintingPolicy", "attachCertificateValidator",
            "attachWithdrawalValidator"}

\* C19: a synchronous intent that raises an error, of whatever kind, leaves the
\* builder state and the queue as they were before the call.
C19_FailedCallChangesNothing ==
    (call.op \in SyncOps /\ call.err # "none") =>
        /\ txBuilder = call.pre.b
        /\ tasks = call.pre.tasks

\* the latest complete() has started task i and seen it settle without error,
\* all before position p
RanBefore(R, i, p) ==
    \E q, r \in 1..(p - 1) :
        /\ q < r
        /\ R[q].e = "start" /\ R[q].n = i
        /\ R[r].e = "settle" /\ R[r].n = i /\ R[r].x = "none"

\* the tasks enqueued since the latest complete() was called
EnqueuedInDrain == (Len(call.pre.tasks) + 1)..Len(tasks)

\* C20: a task enqueued while complete() drains the queue is run by that same
\* complete(): it starts after every task before it in the queue has settled,
\* and once the wallet is asked for its UTxOs, and so when balance and construct
\* are invoked, every task of the queue, those included, has run.
C20_EnqueuedDuringDrain ==
    LET R == RunTrace
        L == RunLogOf(R)
    IN
    InComplete =>
        /\ \A p \in At(R, "getUtxosCore") \cup At(R, "balance") \cup At(R, "construct") :
              \A i \in 1..Len(tasks) : RanBefore(R, i, p)
        /\ \A i \in EnqueuedInDrain :
              \A p \in At(R, "start") :
                  R[p].n = i => \A j \in 1..(i - 1) : RanBefore(R, j, p)
        /\ Drained => Len(L) = Len(tasks)

\* C20 witness: the applyIf callback at the head of a queue of two has issued
\* collectFrom during the drain; the new task has run third and added its
\* input, and complete() has gone on to construct
C20_Witness ==
    LET R == RunTrace
        L == RunLogOf(R)
    IN
    /\ InComplete
    /\ pc = "construct"
    /\ Len(call.pre.tasks) = 2
    /\ tasks[1].kind = "applyIf" /\ tasks[1].cb.kind = "collect"
    /\ EnqueuedInDrain = {3}
    /\ L = <<1, 2, 3>>
    /\ Len(txBuilder.inputs) >= 1

\* the deferred intents
DeferredOps == {"readFrom", "collectFrom", "registerPool", "updatePool", "applyIf"}

\* the fields of the builder state
BuilderFields == DOMAIN EmptyBuilder

\* builder state a holds, field by field, the entries of b followed by others
Extends(a, b) == \A f \in BuilderFields : IsPrefix(b[f], a[f])

\* no deferred intent has had an effect: no input, no reference input, no
\* pool certificate, no datum fetched, no collaborator invoked
NoDeferredEffect ==
    /\ txBuilder.inputs = <<>>
    /\ txBuilder.refInputs = <<>>
    /\ PoolCertificates(txBuilder) = {}
    /\ utxoDatum = [u \in UTxOs |-> InitialDatum(u)]
    /\ trace = <<>>
    /\ running = {}

\* a step that is the call of a deferred intent
DeferredCallStep == call' # call /\ call'.op \in DeferredOps

\* a step that is the call of a synchronous intent
SyncCallStep == ncalls' # ncalls /\ call'.op \in SyncOps

\* the call of a deferred intent changes nothing but the queue, to which it
\* appends one task (applyIf: when its condition holds, none otherwise); the
\* call of a synchronous intent that returns changes the builder state and
\* leaves the queue alone
C21_CallStep ==
    /\ DeferredCallStep =>
          /\ txBuilder' = txBuilder
          /\ UNCHANGED <<utxoDatum, trace, running, pc, held>>
          /\ IF call'.op = "applyIf" /\ ~call'.args.condition
             THEN tasks' = tasks
             ELSE /\ Len(tasks') = Len(tasks) + 1
                  /\ SubSeq(tasks', 1, Len(tasks)) = tasks
                  /\ tasks'[Len(tasks')].kind = call'.op
    /\ SyncCallStep =>
          /\ call'.pre.b = txBuilder
          /\ UNCHANGED <<tasks, utxoDatum, trace, running, pc, held>>
          /\ call'.err = "none" => /\ txBuilder' # txBuilder
                                   /\ Extends(txBuilder', txBuilder)
    /\ (txBuilder' # txBuilder /\ completes' = 0) => SyncCallStep

\* before complete() is called nothing of the deferred intents is in the
\* builder state; from the call of complete() on, what the builder state held
\* at that call stays at the head of every field and the effects of the tasks
\* come behind it
C21_SyncBeforeDeferred ==
    /\ completes = 0 => NoDeferredEffect
    /\ InComplete => Extends(txBuilder, call.pre.b)

\* C21: before complete() is called, readFrom, collectFrom, registerPool,
\* updatePool and applyIf change nothing in the builder state and invoke no
\* collaborator, they only append their task to the queue, also when no datum
\* needs resolving, whereas every other intent changes the builder state at its
\* call; so in every field of the builder state the effects of the synchronous
\* intents issued before complete() precede the effects of the deferred
\* intents, whatever the order of the calls.
C21_DeferredAfterSynchronous ==
    [][C21_CallStep]_vars /\ []C21_SyncBeforeDeferred

\* C21 witness: readFrom and applyIf were issued along with addSigner and
\* payToAddress, and complete() has drained the queue: the signer and the
\* output of the synchronous intents were in the builder state when complete()
\* was called, the reference input and the output of the callback have come
\* after
C21_Witness ==
    /\ InComplete
    /\ pc = "construct"
    /\ \E i \in 1..Len(call.pre.tasks) : tasks[i].kind = "readFrom"
    /\ \E i \in 1..Len(call.pre.tasks) : tasks[i].kind = "applyIf"
    /\ call.pre.b.signers # <<>>
    /\ call.pre.b.outputs # <<>>
    /\ call.pre.b.refInputs = <<>>
    /\ txBuilder.refInputs # <<>>
    /\ Len(txBuilder.outputs) > Len(call.pre.b.outputs)

====
